---- MODULE Spec2Model ----
(***************************************************************************)
(* Model of the multi-instance PSU registry of devices/run_psu_multi.py:   *)
(* the module-level dictionary _psu_instances, the _module_loaded flag,    *)
(* the imported native module, the legacy _psu_instance global, and every  *)
(* function of the module that reads or writes them.                       *)
(*                                                                         *)
(* Each Python function is a pure operator from the program state (a       *)
(* record of the module globals) and the call's inputs to an effect record *)
(* (the new globals, the return value, the exception that left the call,   *)
(* and what the call did to the driver).  Each action calls one function   *)
(* once, with its inputs and the driver's and the file system's answers    *)
(* drawn from small sets, and commits the effect.                          *)
(***************************************************************************)
EXTENDS Integers, Sequences, FiniteSets, TLC

VARIABLES
    psu_instances,        \* _psu_instances: dict key -> driver object
    module_loaded,        \* _module_loaded
    heinzinger_control,   \* globals()[PYTHON_MODULE_NAME]: what the import bound
    psu_instance_legacy,  \* _psu_instance (the legacy global)
    next_handle,          \* identity of the next driver object constructed
    objects,              \* the limits each driver object was constructed with
    threads,              \* the callers' threads inside initialize, step by step
    single,               \* run_psu.py: its module globals and its last call
    moxa,                 \* moxa.py: one call of scan, iteration by iteration
    live,                 \* history: keys initialized and not cleaned up since
    born,                 \* history: per key, the object of the first success
    last                  \* history: the last call, its result and its effects

vars == <<psu_instances, module_loaded, heinzinger_control, psu_instance_legacy,
          next_handle, objects, threads, live, born, last, single, moxa>>

---------------------------------------------------------------------------
(* Bounds and value sets *)

\* Driver objects that may be constructed in one behaviour.
MaxHandles == 3

\* The same number in the specification that also keeps each object's limits.
MaxTrackedHandles == 2

\* Python's None, as the value of a dictionary miss or of an unset global.
\* Driver objects are 1, 2, ...
None == 0

USB_PATH_HEINZINGER == "@00110000"

USB_PATH_FUG == "@00120000"

\* device_index keys (integers in the program, written as their decimal text
\* so that they live in one set with the USB paths).
IndexKeys == {"0", "1"}

PathKeys == {USB_PATH_HEINZINGER, USB_PATH_FUG}

Keys == IndexKeys \cup PathKeys

\* The limits a caller passes to initialize: the defaults of the signature,
\* or limits of its own (max_v, max_c, max_in_v).
DefaultLimits == [max_v |-> 30000, max_c |-> 25, max_in_v |-> 10]

CallerLimits == [max_v |-> 5000, max_c |-> 2, max_in_v |-> 10]

Limits == {DefaultLimits, CallerLimits}

\* How a call site passes its limits: left to the defaults, or given.
LimitsArg(lim) == IF lim = DefaultLimits THEN "default limits" ELSE "given limits"

\* Arguments of the setters: a number, or something float() rejects.
Args == {[kind |-> "num", val |-> 3300], [kind |-> "text", val |-> 0]}

\* Values a driver read may return.
Measured == {0, 3287}

\* Exceptions a driver call may raise (pybind11 translates every C++
\* exception into a subclass of Exception).
DriverErrors == {"RuntimeError: usb transfer failed", "OSError: device gone"}

\* What one driver method call answers.
BoolOutcomes ==
    [kind : {"ret"}, val : BOOLEAN] \cup [kind : {"raise"}, val : DriverErrors]

ReadOutcomes ==
    [kind : {"ret"}, val : Measured] \cup [kind : {"raise"}, val : DriverErrors]

\* What the constructor call answers: an object, or an exception.
CtorOutcomes == {"object", "raise"}

\* What the file system and the import answer in setup_module_path_and_load.
LoadOutcomes ==
    {"no_build_dir", "no_so_file", "ImportError", "Exception",
     "imported", "imported_without_class"}

\* The processes a call can be made in, told by what the loader answers
\* there: one whose module is loadable and one without a build directory.
Processes == {"imported", "no_build_dir"}

NotInitialized == "RuntimeError: not initialized"

---------------------------------------------------------------------------
(* The program state and the effect of a call *)

State ==
    [psu_instances |-> psu_instances,
     module_loaded |-> module_loaded,
     heinzinger_control |-> heinzinger_control,
     psu_instance_legacy |-> psu_instance_legacy,
     next_handle |-> next_handle,
     objects |-> objects.limits]

\* {}: the empty dictionary.
EmptyDict == [x \in {} |-> None]

\* dict.get(k): the value, or None on a miss.
DictGet(d, k) == IF k \in DOMAIN d THEN d[k] ELSE None

\* d[k] = v
DictSet(d, k, v) == [x \in DOMAIN d \cup {k} |-> IF x = k THEN v ELSE d[x]]

\* del d[k]
DictDel(d, k) == [x \in DOMAIN d \ {k} |-> d[x]]

\* An effect: the state after the call, the value returned (ret), the
\* exception that left the call ("" when it returned), the constructor calls
\* made (ctor: a sequence of [key, limits, made]), the driver method calls made (drv),
\* the keys deleted (deleted) and the imports executed (imports).
Returns(s, v) ==
    [s |-> s, ret |-> v, raised |-> "", ctor |-> <<>>, drv |-> <<>>,
     deleted |-> <<>>, imports |-> 0]

Raises(s, e) ==
    [s |-> s, ret |-> None, raised |-> e, ctor |-> <<>>, drv |-> <<>>,
     deleted |-> <<>>, imports |-> 0]

\* float(x): the number, or ValueError.
Float(a) ==
    IF a.kind = "num" THEN [raised |-> FALSE, val |-> a.val]
    ELSE [raised |-> TRUE, val |-> 0]

\* b after a within one call: b's state and result, the calls of both.
Then(a, b) ==
    [b EXCEPT !.ctor = a.ctor \o b.ctor,
              !.drv = a.drv \o b.drv,
              !.deleted = a.deleted \o b.deleted,
              !.imports = a.imports + b.imports]

\* list(d.keys()): the keys of d, each once.  (Python lists them in insertion
\* order; the registry does not record it, and the loop that uses the list
\* treats each key on its own.)
RECURSIVE ListOf(_)
ListOf(S) ==
    IF S = {} THEN <<>>
    ELSE LET x == CHOOSE y \in S : TRUE IN <<x>> \o ListOf(S \ {x})

ListKeys(d) == ListOf(DOMAIN d)

---------------------------------------------------------------------------
(* The functions of run_psu_multi.py *)

\* The loader with its "already loaded" return placed after the import: a
\* loaded module is imported again on every call.
setup_module_path_and_load_imports_again(s, out) ==
    IF s.module_loaded THEN [Returns(s, TRUE) EXCEPT !.imports = 1]
    ELSE IF out \in {"no_build_dir", "no_so_file"} THEN
        Returns([s EXCEPT !.module_loaded = FALSE], FALSE)
    ELSE IF out \in {"imported", "imported_without_class"} THEN
        [Returns([s EXCEPT !.module_loaded = TRUE,
                           !.heinzinger_control =
                               IF out = "imported" THEN "module"
                               ELSE "module_without_class"], TRUE)
            EXCEPT !.imports = 1]
    ELSE
        [Returns([s EXCEPT !.module_loaded = FALSE], FALSE)
            EXCEPT !.imports = 1]

\* The loader without its "already loaded" return: every call goes through
\* the directory check, the file check and the import again.
setup_module_path_and_load_without_early_return(s, out) ==
    IF out = "no_build_dir" THEN
        Returns([s EXCEPT !.module_loaded = FALSE], FALSE)
    ELSE IF out = "no_so_file" THEN
        Returns([s EXCEPT !.module_loaded = FALSE], FALSE)
    ELSE IF out \in {"imported", "imported_without_class"} THEN
        [Returns([s EXCEPT !.module_loaded = TRUE,
                           !.heinzinger_control =
                               IF out = "imported" THEN "module"
                               ELSE "module_without_class"], TRUE)
            EXCEPT !.imports = 1]
    ELSE
        [Returns([s EXCEPT !.module_loaded = FALSE], FALSE)
            EXCEPT !.imports = 1]

\* setup_module_path_and_load(): `out` is what the file system and the import
\* answer when they are asked.
setup_module_path_and_load(s, out) ==
    IF s.module_loaded THEN Returns(s, TRUE)
    ELSE IF out = "no_build_dir" THEN
        Returns([s EXCEPT !.module_loaded = FALSE], FALSE)
    ELSE IF out = "no_so_file" THEN
        Returns([s EXCEPT !.module_loaded = FALSE], FALSE)
    ELSE IF out \in {"imported", "imported_without_class"} THEN
        [Returns([s EXCEPT !.module_loaded = TRUE,
                           !.heinzinger_control =
                               IF out = "imported" THEN "module"
                               ELSE "module_without_class"], TRUE)
            EXCEPT !.imports = 1]
    ELSE \* ImportError, or any other Exception of the import
        [Returns([s EXCEPT !.module_loaded = FALSE], FALSE)
            EXCEPT !.imports = 1]

\* The constructor call with the store moved out of the try block's success
\* path: a failed construction leaves None under the key.
Construct_stores_on_failure(s, k, lim, out) ==
    IF out = "raise" THEN
        [Returns([s EXCEPT !.psu_instances = DictSet(@, k, None)], FALSE)
            EXCEPT !.ctor = <<[key |-> k, limits |-> lim, made |-> None]>>]
    ELSE
        LET h == s.next_handle IN
        [Returns([s EXCEPT !.psu_instances = DictSet(@, k, h),
                           !.objects = DictSet(@, h, lim),
                           !.next_handle = h + 1], TRUE)
            EXCEPT !.ctor = <<[key |-> k, limits |-> lim, made |-> h]>>]

\* The constructor call with one retry after a failure.
Construct_retries_on_failure(s, k, lim, out) ==
    IF out = "raise" THEN
        [Returns(s, FALSE)
            EXCEPT !.ctor = <<[key |-> k, limits |-> lim, made |-> None],
                              [key |-> k, limits |-> lim, made |-> None]>>]
    ELSE
        LET h == s.next_handle IN
        [Returns([s EXCEPT !.psu_instances = DictSet(@, k, h),
                           !.objects = DictSet(@, h, lim),
                           !.next_handle = h + 1], TRUE)
            EXCEPT !.ctor = <<[key |-> k, limits |-> lim, made |-> h]>>]

\* The constructor call behind a cache of the last object made: when the
\* registry no longer holds that object, it is handed out again.
Construct_revives_released(s, k, lim, out) ==
    IF out = "raise" THEN
        [Returns(s, FALSE)
            EXCEPT !.ctor = <<[key |-> k, limits |-> lim, made |-> None]>>]
    ELSE
        LET newest == s.next_handle - 1
            held == {s.psu_instances[x] : x \in DOMAIN s.psu_instances}
            h == IF newest >= 1 /\ newest \notin held THEN newest
                 ELSE s.next_handle
        IN  [Returns([s EXCEPT !.psu_instances = DictSet(@, k, h),
                               !.objects = DictSet(@, h, lim),
                               !.next_handle = IF h = @ THEN @ + 1 ELSE @], TRUE)
                EXCEPT !.ctor = <<[key |-> k, limits |-> lim, made |-> h]>>]

\* The constructor call PSUClass(...) and the store that follows it, shared
\* by the two initialize functions: `lim` are the limits passed to the
\* constructor, `out` is what the constructor answers.
Construct(s, k, lim, out) ==
    IF out = "raise" THEN
        [Returns(s, FALSE)
            EXCEPT !.ctor = <<[key |-> k, limits |-> lim, made |-> None]>>]
    ELSE
        LET h == s.next_handle IN
        [Returns([s EXCEPT !.psu_instances = DictSet(@, k, h),
                           !.objects = DictSet(@, h, lim),
                           !.next_handle = h + 1], TRUE)
            EXCEPT !.ctor = <<[key |-> k, limits |-> lim, made |-> h]>>]

\* initialize_psu taking new limits as a request to configure the device
\* anew: a present key whose object has other limits gets a new object.
initialize_psu_replaces_on_new_limits(s, device_index, lim, out) ==
    IF ~s.module_loaded THEN Returns(s, FALSE)
    ELSE IF /\ device_index \in DOMAIN s.psu_instances
            /\ DictGet(s.objects, s.psu_instances[device_index]) = lim
         THEN Returns(s, TRUE)
    ELSE IF s.heinzinger_control # "module" THEN Returns(s, FALSE)
    ELSE Construct(s, device_index, lim, out)

\* initialize_psu without its "already initialized" check: every call with the
\* module loaded goes to the constructor.
initialize_psu_without_presence_check(s, device_index, lim, out) ==
    IF ~s.module_loaded THEN Returns(s, FALSE)
    ELSE IF s.heinzinger_control # "module" THEN Returns(s, FALSE)
    ELSE Construct(s, device_index, lim, out)

\* initialize_psu(device_index, max_v, max_c, verb, max_in_v)
initialize_psu(s, device_index, lim, out) ==
    IF ~s.module_loaded THEN Returns(s, FALSE)
    ELSE IF device_index \in DOMAIN s.psu_instances THEN Returns(s, TRUE)
    ELSE IF s.heinzinger_control = "unbound" THEN Returns(s, FALSE)
    ELSE IF s.heinzinger_control = "module_without_class" THEN
        Returns(s, FALSE)  \* getattr raises AttributeError
    ELSE Construct(s, device_index, lim, out)

\* initialize_psu_by_path(usb_path, max_v, max_c, verb, max_in_v)
initialize_psu_by_path(s, usb_path, lim, out) ==
    IF ~s.module_loaded THEN Returns(s, FALSE)
    ELSE IF usb_path \in DOMAIN s.psu_instances THEN Returns(s, TRUE)
    ELSE IF s.heinzinger_control = "unbound" THEN
        Returns(s, FALSE)  \* globals()[...] raises KeyError
    ELSE IF s.heinzinger_control = "module_without_class" THEN
        Returns(s, FALSE)  \* getattr raises AttributeError
    ELSE Construct(s, usb_path, lim, out)

\* get_psu_instance without its final lookup: the function falls off its end.
get_psu_instance_forgets_handle(s, device_index, lim, load_out, ctor_out) ==
    IF device_index \notin DOMAIN s.psu_instances THEN
        LET a == setup_module_path_and_load(s, load_out)
            b == Then(a, initialize_psu(a.s, device_index, lim, ctor_out))
        IN  [b EXCEPT !.ret = None]
    ELSE Returns(s, DictGet(s.psu_instances, device_index))

\* get_psu_instance that leaves the limits of initialize to its defaults.
get_psu_instance_drops_limits(s, device_index, lim, load_out, ctor_out) ==
    IF device_index \notin DOMAIN s.psu_instances THEN
        LET a == setup_module_path_and_load(s, load_out)
            b == Then(a, initialize_psu(a.s, device_index, DefaultLimits, ctor_out))
        IN  IF b.ret = FALSE THEN [b EXCEPT !.ret = None]
            ELSE [b EXCEPT !.ret = DictGet(b.s.psu_instances, device_index)]
    ELSE Returns(s, DictGet(s.psu_instances, device_index))

\* get_psu_instance(device_index, max_v, max_c, verb, max_in_v)
get_psu_instance(s, device_index, lim, load_out, ctor_out) ==
    IF device_index \notin DOMAIN s.psu_instances THEN
        LET a == setup_module_path_and_load(s, load_out)
            b == Then(a, initialize_psu(a.s, device_index, lim, ctor_out))
        IN  IF ~b.ret THEN [b EXCEPT !.ret = None]
            ELSE [b EXCEPT !.ret = DictGet(b.s.psu_instances, device_index)]
    ELSE Returns(s, DictGet(s.psu_instances, device_index))

\* get_psu_instance_by_path(usb_path, max_v, max_c, verb, max_in_v)
get_psu_instance_by_path(s, usb_path, lim, ctor_out) ==
    LET b == initialize_psu_by_path(s, usb_path, lim, ctor_out)
    IN  IF ~b.ret THEN [b EXCEPT !.ret = None]
        ELSE [b EXCEPT !.ret = DictGet(b.s.psu_instances, usb_path)]

\* get_psu_instance_legacy(device_index, verb): the limits are left to
\* get_psu_instance's defaults.
get_psu_instance_legacy(s, device_index, load_out, ctor_out) ==
    LET b == get_psu_instance(s, device_index, DefaultLimits, load_out, ctor_out)
    IN  [b EXCEPT !.s.psu_instance_legacy = b.ret]

\* One driver method call on object psu: its record in the effect.
DriverCall(psu, method, out) == <<[obj |-> psu, method |-> method, out |-> out]>>

\* The commands' call without its try block: an Exception of the driver
\* leaves the function.
Delegate_without_try(s, psu, method, out) ==
    IF out.kind = "raise" THEN
        [Raises(s, out.val) EXCEPT !.drv = DriverCall(psu, method, out)]
    ELSE
        [Returns(s, out.val) EXCEPT !.drv = DriverCall(psu, method, out)]

\* The try block shared by the four commands: call the method and return what
\* it returned; an Exception of the driver is caught and turned into False.
Delegate(s, psu, method, out) ==
    IF out.kind = "raise" THEN
        [Returns(s, FALSE) EXCEPT !.drv = DriverCall(psu, method, out)]
    ELSE
        [Returns(s, out.val) EXCEPT !.drv = DriverCall(psu, method, out)]

\* set_psu_voltage answering a missing instance like the reads do: by raising.
set_psu_voltage_raises_when_absent(s, device_index, voltage, out) ==
    LET psu_instance == DictGet(s.psu_instances, device_index)
    IN  IF psu_instance = None THEN Raises(s, NotInitialized)
        ELSE IF Float(voltage).raised THEN Returns(s, FALSE)
        ELSE Delegate(s, psu_instance, "set_voltage", out)

\* set_psu_voltage(device_index, voltage)
set_psu_voltage(s, device_index, voltage, out) ==
    LET psu_instance == DictGet(s.psu_instances, device_index)
    IN  IF psu_instance = None THEN Returns(s, FALSE)
        ELSE IF Float(voltage).raised THEN Returns(s, FALSE)
        ELSE Delegate(s, psu_instance, "set_voltage", out)

\* set_psu_current(device_index, current)
set_psu_current(s, device_index, current, out) ==
    LET psu_instance == DictGet(s.psu_instances, device_index)
    IN  IF psu_instance = None THEN Returns(s, FALSE)
        ELSE IF Float(current).raised THEN Returns(s, FALSE)
        ELSE Delegate(s, psu_instance, "set_current", out)

\* switch_psu_on(device_index)
switch_psu_on(s, device_index, out) ==
    LET psu_instance == DictGet(s.psu_instances, device_index)
    IN  IF psu_instance = None THEN Returns(s, FALSE)
        ELSE Delegate(s, psu_instance, "switch_on", out)

\* switch_psu_off(device_index)
switch_psu_off(s, device_index, out) ==
    LET psu_instance == DictGet(s.psu_instances, device_index)
    IN  IF psu_instance = None THEN Returns(s, FALSE)
        ELSE Delegate(s, psu_instance, "switch_off", out)

\* The reads' call with the failure swallowed: an Exception of the driver is
\* printed and 0 is returned.
DelegateRead_masks_failure(s, psu, method, out) ==
    IF out.kind = "raise" THEN
        [Returns(s, 0) EXCEPT !.drv = DriverCall(psu, method, out)]
    ELSE
        [Returns(s, out.val) EXCEPT !.drv = DriverCall(psu, method, out)]

\* The try block shared by the two reads: return what the driver returned;
\* an Exception of the driver is printed and raised again.
DelegateRead(s, psu, method, out) ==
    IF out.kind = "raise" THEN
        [Raises(s, out.val) EXCEPT !.drv = DriverCall(psu, method, out)]
    ELSE
        [Returns(s, out.val) EXCEPT !.drv = DriverCall(psu, method, out)]

\* read_psu_voltage answering a missing instance like the commands do: False.
read_psu_voltage_returns_false_when_absent(s, device_index, out) ==
    LET psu_instance == DictGet(s.psu_instances, device_index)
    IN  IF psu_instance = None THEN Returns(s, FALSE)
        ELSE DelegateRead(s, psu_instance, "read_voltage", out)

\* read_psu_voltage(device_index)
read_psu_voltage(s, device_index, out) ==
    LET psu_instance == DictGet(s.psu_instances, device_index)
    IN  IF psu_instance = None THEN Raises(s, NotInitialized)
        ELSE DelegateRead(s, psu_instance, "read_voltage", out)

\* read_psu_current(device_index)
read_psu_current(s, device_index, out) ==
    LET psu_instance == DictGet(s.psu_instances, device_index)
    IN  IF psu_instance = None THEN Raises(s, NotInitialized)
        ELSE DelegateRead(s, psu_instance, "read_current", out)

\* is_relay_on taking a failed query for "on".
is_relay_on_true_on_failure(s, device_index, out) ==
    LET psu_instance == DictGet(s.psu_instances, device_index)
    IN  IF psu_instance = None THEN Returns(s, FALSE)
        ELSE IF out.kind = "raise" THEN
            [Returns(s, TRUE)
                EXCEPT !.drv = DriverCall(psu_instance, "is_relay_on", out)]
        ELSE Delegate(s, psu_instance, "is_relay_on", out)

\* is_relay_on(device_index)
is_relay_on(s, device_index, out) ==
    LET psu_instance == DictGet(s.psu_instances, device_index)
    IN  IF psu_instance = None THEN Returns(s, FALSE)
        ELSE Delegate(s, psu_instance, "is_relay_on", out)

\* The argument of cleanup_psu() when none is given (device_index=None).
NoArg == "<None>"

\* The one-key branch with the del forgotten: it reports and returns True.
CleanupOne_without_del(s, device_index) == Returns(s, TRUE)

\* The one-key branch emptying the whole dictionary instead of deleting the
\* one entry.
CleanupOne_clears_registry(s, device_index) ==
    IF device_index \in DOMAIN s.psu_instances THEN
        [Returns([s EXCEPT !.psu_instances = EmptyDict], TRUE)
            EXCEPT !.deleted = <<device_index>>]
    ELSE Returns(s, TRUE)

\* The else branch of cleanup_psu: one key.
CleanupOne(s, device_index) ==
    IF device_index \in DOMAIN s.psu_instances THEN
        [Returns([s EXCEPT !.psu_instances = DictDel(@, device_index)], TRUE)
            EXCEPT !.deleted = <<device_index>>]
    ELSE Returns(s, TRUE)

\* cleanup_psu with an unguarded del: a key that is not there raises KeyError.
cleanup_psu_unguarded_del(s, device_index) ==
    IF device_index = NoArg THEN
        [Returns([s EXCEPT !.psu_instances = EmptyDict], TRUE)
            EXCEPT !.deleted = ListKeys(s.psu_instances)]
    ELSE IF device_index \in DOMAIN s.psu_instances THEN
        CleanupOne(s, device_index)
    ELSE Raises(s, "KeyError")

\* cleanup_psu looping over _psu_instances.keys() itself instead of a list of
\* them: the first del changes the dictionary's size, and the loop's next
\* step raises RuntimeError.
cleanup_psu_over_live_keys(s, device_index) ==
    IF device_index = NoArg THEN
        IF DOMAIN s.psu_instances = {} THEN Returns(s, TRUE)
        ELSE Then(CleanupOne(s, Head(ListKeys(s.psu_instances))),
                  Raises(CleanupOne(s, Head(ListKeys(s.psu_instances))).s,
                         "RuntimeError: dictionary changed size during iteration"))
    ELSE CleanupOne(s, device_index)

\* cleanup_psu(device_index=None): with no argument, the loop over
\* list(_psu_instances.keys()) that calls cleanup_psu(idx) for each.
RECURSIVE cleanup_psu(_, _)
RECURSIVE CleanupLoop(_, _)
CleanupLoop(e, idxs) ==
    IF idxs = <<>> THEN e
    ELSE CleanupLoop(Then(e, cleanup_psu(e.s, Head(idxs))), Tail(idxs))

cleanup_psu(s, device_index) ==
    IF device_index = NoArg THEN
        [CleanupLoop(Returns(s, TRUE), ListKeys(s.psu_instances))
            EXCEPT !.ret = TRUE]
    ELSE CleanupOne(s, device_index)

---------------------------------------------------------------------------
(* History: what the registry's contract speaks of *)

InitOps == {"initialize_psu", "initialize_psu_by_path"}

EnsureOps ==
    {"get_psu_instance", "get_psu_instance_by_path", "get_psu_instance_legacy"}

CommandOps ==
    {"set_psu_voltage", "set_psu_current", "switch_psu_on", "switch_psu_off"}

ReadOps == {"read_psu_voltage", "read_psu_current"}

\* The call reported success to its caller: initialize returned True, or the
\* ensure path returned an object.
Succeeded(op, e) ==
    /\ e.raised = ""
    /\ \/ op \in InitOps /\ e.ret = TRUE
       \/ op \in EnsureOps /\ e.ret # None

\* The keys for which an initialize (or ensure) call has succeeded with no
\* cleanup of the key, or of all keys, since: told from the calls and their
\* results alone, not from the dictionary.
LiveAfter(op, k, e) ==
    IF op = "cleanup_psu" THEN (IF k = NoArg THEN {} ELSE live \ {k})
    ELSE IF Succeeded(op, e) THEN live \cup {k}
    ELSE live

\* The object the constructor made for key x in this call, None if none.
MadeFor(ctor, x) ==
    LET hits == {i \in 1..Len(ctor) : ctor[i].key = x /\ ctor[i].made # None}
    IN  IF hits = {} THEN None
        ELSE ctor[CHOOSE i \in hits : \A j \in hits : i <= j].made

\* Per key, the object made by the first successful constructor call since
\* the key's last cleanup.
BornAfter(op, k, e) ==
    [x \in Keys |->
        IF op = "cleanup_psu" /\ (k = NoArg \/ k = x) THEN None
        ELSE IF born[x] # None THEN born[x]
        ELSE MadeFor(e.ctor, x)]

\* The driver objects a module global still refers to.
Referenced(s) ==
    ({s.psu_instances[k] : k \in DOMAIN s.psu_instances}
        \cup {s.psu_instance_legacy}) \ {None}

\* Reference counting: an object that no module global refers to any more
\* is destroyed, and its limits with it.
Collect(s) ==
    [s EXCEPT !.objects =
        [h \in (DOMAIN s.objects) \cap Referenced(s) |-> s.objects[h]]]

\* One call of function `op` with key `k`, argument `a` (the kind of a
\* setter's value, the limits of an initialize, "" for the other functions)
\* and effect `e` takes place, in a process where the loader, if it is asked
\* during the call, answers `lo` ("" where this is not recorded).
CommitIn(op, k, a, lo, e) ==
    /\ e.s.next_handle <=
           (IF objects.tracked THEN MaxTrackedHandles ELSE MaxHandles) + 1
    /\ psu_instances' = e.s.psu_instances
    /\ module_loaded' = e.s.module_loaded
    /\ heinzinger_control' = e.s.heinzinger_control
    /\ psu_instance_legacy' = e.s.psu_instance_legacy
    /\ next_handle' = e.s.next_handle
    /\ objects' = IF objects.tracked
                  THEN [objects EXCEPT !.limits = Collect(e.s).objects]
                  ELSE objects
    /\ UNCHANGED <<threads, single, moxa>>
    /\ live' = LiveAfter(op, k, e)
    /\ born' = BornAfter(op, k, e)
    /\ last' = [op |-> op, key |-> k, arg |-> a, loader |-> lo,
                ret |-> e.ret, raised |-> e.raised,
                ctor |-> e.ctor, drv |-> e.drv, deleted |-> e.deleted,
                imports |-> e.imports, pre |-> State]

\* One call with an argument.
CommitArg(op, k, a, e) == CommitIn(op, k, a, "", e)

\* One call of a function that takes no setter argument.
Commit(op, k, e) == CommitArg(op, k, "", e)

---------------------------------------------------------------------------
(* The specification: the module as imported, then any sequence of calls *)

\* The callers' threads: each is outside initialize ("idle"), past its
\* presence check ("checked"), or back from the constructor with an object
\* not yet stored ("constructed").
Threads == {"t1", "t2"}

IdleThread == [pc |-> "idle", key |-> NoArg, made |-> None]

\* One caller at a time: no thread is inside a call.
NoCallers(serialized) ==
    [serialized |-> serialized, at |-> [t \in Threads |-> IdleThread],
     replaced |-> {}]

\* moxa.py with scan not called.
MoxaNotCalled ==
    [status |-> "not called", ports |-> <<>>, i |-> 0, results |-> <<>>,
     attempts |-> <<>>, sockets |-> <<>>, raised |-> ""]

\* run_psu.py as imported: _psu_instances = {} and _module_loaded = False are
\* its only assignments of PSU state at module level; the name _psu_instance
\* that its functions read is bound by none of them.
SingleImported ==
    [psu_instance |-> [bound |-> FALSE, value |-> None],
     module_loaded |-> FALSE,
     heinzinger_control |-> "unbound",
     next_handle |-> 1]

SingleFresh ==
    [s |-> SingleImported,
     last |-> [op |-> "import", key |-> NoArg, arg |-> "", ret |-> None,
               raised |-> "", ctor |-> <<>>, drv |-> <<>>, imports |-> 0,
               pre |-> SingleImported]]

Imported ==
    /\ single = SingleFresh
    /\ psu_instances = EmptyDict
    /\ module_loaded = FALSE
    /\ heinzinger_control = "unbound"
    /\ psu_instance_legacy = None
    /\ next_handle = 1
    /\ live = {}
    /\ born = [x \in Keys |-> None]
    /\ last = [op |-> "import", key |-> NoArg, arg |-> "", loader |-> "",
               ret |-> None, raised |-> "",
               ctor |-> <<>>, drv |-> <<>>, deleted |-> <<>>, imports |-> 0,
               pre |-> [psu_instances |-> EmptyDict, module_loaded |-> FALSE,
                        heinzinger_control |-> "unbound",
                        psu_instance_legacy |-> None, next_handle |-> 1,
                        objects |-> EmptyDict]]

\* The module as imported; the limits of the objects are not kept.
Init ==
    /\ Imported
    /\ objects = [tracked |-> FALSE, limits |-> EmptyDict]
    /\ threads = NoCallers(TRUE)
    /\ moxa = MoxaNotCalled

\* The module as imported; the limits of every object are kept from its
\* construction to its destruction.
InitLimits ==
    /\ Imported
    /\ objects = [tracked |-> TRUE, limits |-> EmptyDict]
    /\ threads = NoCallers(TRUE)
    /\ moxa = MoxaNotCalled

\* The answers to enumerate for one call: all of `outs` where the call asks
\* for one, and a single one, which the call never looks at, where it does
\* not.
Asked(asks, outs) == IF asks THEN outs ELSE {CHOOSE o \in outs : TRUE}

Present(k) == k \in DOMAIN psu_instances

\* The loader answers in setup_module_path_and_load unless the module is
\* loaded; the accessors call it for an absent key only.
LoaderAsked(k) == ~Present(k) /\ ~module_loaded

\* The constructor is called by an initialization for an absent key with the
\* module loaded.
CtorAsked(k, loaded) == ~Present(k) /\ loaded

CallSetup ==
    \E out \in LoadOutcomes :
        Commit("setup_module_path_and_load", NoArg,
               setup_module_path_and_load(State, out))

CallInitialize ==
    \E k \in IndexKeys, lim \in Limits :
      \E out \in Asked(CtorAsked(k, module_loaded), CtorOutcomes) :
        CommitArg("initialize_psu", k, LimitsArg(lim),
                  initialize_psu(State, k, lim, out))

CallInitializeByPath ==
    \E k \in PathKeys, lim \in Limits :
      \E out \in Asked(CtorAsked(k, module_loaded), CtorOutcomes) :
        CommitArg("initialize_psu_by_path", k, LimitsArg(lim),
                  initialize_psu_by_path(State, k, lim, out))

CallGet ==
    \E k \in IndexKeys, lim \in Limits :
      \E lo \in Asked(LoaderAsked(k), LoadOutcomes) :
        \E out \in Asked(CtorAsked(k, setup_module_path_and_load(State, lo).ret),
                         CtorOutcomes) :
          CommitArg("get_psu_instance", k, LimitsArg(lim),
                    get_psu_instance(State, k, lim, lo, out))

CallGetByPath ==
    \E k \in PathKeys, lim \in Limits, lo \in Processes :
      \E out \in Asked(CtorAsked(k, module_loaded), CtorOutcomes) :
        CommitIn("get_psu_instance_by_path", k, LimitsArg(lim), lo,
                 get_psu_instance_by_path(State, k, lim, out))

CallGetLegacy ==
    \E k \in IndexKeys :
      \E lo \in Asked(LoaderAsked(k), LoadOutcomes) :
        \E out \in Asked(CtorAsked(k, setup_module_path_and_load(State, lo).ret),
                         CtorOutcomes) :
          CommitArg("get_psu_instance_legacy", k, LimitsArg(DefaultLimits),
                    get_psu_instance_legacy(State, k, lo, out))

CallSetVoltage ==
    \E k \in Keys, v \in Args :
      \E out \in Asked(Present(k) /\ ~Float(v).raised, BoolOutcomes) :
        CommitArg("set_psu_voltage", k, v.kind,
                  set_psu_voltage(State, k, v, out))

CallSetCurrent ==
    \E k \in Keys, c \in Args :
      \E out \in Asked(Present(k) /\ ~Float(c).raised, BoolOutcomes) :
        CommitArg("set_psu_current", k, c.kind,
                  set_psu_current(State, k, c, out))

CallSwitchOn ==
    \E k \in Keys :
      \E out \in Asked(Present(k), BoolOutcomes) :
        Commit("switch_psu_on", k, switch_psu_on(State, k, out))

CallSwitchOff ==
    \E k \in Keys :
      \E out \in Asked(Present(k), BoolOutcomes) :
        Commit("switch_psu_off", k, switch_psu_off(State, k, out))

CallReadVoltage ==
    \E k \in Keys :
      \E out \in Asked(Present(k), ReadOutcomes) :
        Commit("read_psu_voltage", k, read_psu_voltage(State, k, out))

CallReadCurrent ==
    \E k \in Keys :
      \E out \in Asked(Present(k), ReadOutcomes) :
        Commit("read_psu_current", k, read_psu_current(State, k, out))

CallIsRelayOn ==
    \E k \in Keys :
      \E out \in Asked(Present(k), BoolOutcomes) :
        Commit("is_relay_on", k, is_relay_on(State, k, out))

CallCleanup ==
    \E k \in Keys \cup {NoArg} :
        Commit("cleanup_psu", k, cleanup_psu(State, k))

Next ==
    \/ CallSetup
    \/ CallInitialize
    \/ CallInitializeByPath
    \/ CallGet
    \/ CallGetByPath
    \/ CallGetLegacy
    \/ CallSetVoltage
    \/ CallSetCurrent
    \/ CallSwitchOn
    \/ CallSwitchOff
    \/ CallReadVoltage
    \/ CallReadCurrent
    \/ CallIsRelayOn
    \/ CallCleanup

Spec == Init /\ [][Next]_vars

SpecLimits == InitLimits /\ [][Next]_vars

---------------------------------------------------------------------------
(* Callers on threads: initialize step by step, with and without a lock    *)

\* The first two checks of initialize with the second one left out.
InitializeChecks_without_presence_check(s, k) ==
    IF ~s.module_loaded THEN "return False" ELSE "go on"

\* The first two checks of initialize_psu and initialize_psu_by_path: the
\* loaded flag, then the presence of the key.
InitializeChecks(s, k) ==
    IF ~s.module_loaded THEN "return False"
    ELSE IF k \in DOMAIN s.psu_instances THEN "return True"
    ELSE "go on"

\* The callers serialize their calls (threads.serialized): a call begins only
\* when no other thread is inside one.
MayBegin(t) ==
    /\ threads.at[t].pc = "idle"
    /\ threads.serialized => \A u \in Threads : threads.at[u].pc = "idle"

\* Thread t calls setup_module_path_and_load().
ThreadSetup(t) ==
    /\ MayBegin(t)
    /\ \E out \in LoadOutcomes :
           LET e == setup_module_path_and_load(State, out)
           IN  /\ module_loaded' = e.s.module_loaded
               /\ heinzinger_control' = e.s.heinzinger_control
    /\ UNCHANGED <<psu_instances, psu_instance_legacy, next_handle, objects,
                   threads, live, born, last, single, moxa>>

\* Thread t calls initialize for key k and runs its checks; it returns at
\* once, or goes on into the try block.
ThreadCheck(t) ==
    /\ MayBegin(t)
    /\ \E k \in Keys :
           threads' = IF InitializeChecks(State, k) = "go on"
                      THEN [threads EXCEPT !.at[t] =
                               [pc |-> "checked", key |-> k, made |-> None]]
                      ELSE threads
    /\ UNCHANGED <<psu_instances, module_loaded, heinzinger_control,
                   psu_instance_legacy, next_handle, objects, live, born, last, single, moxa>>

\* Thread t looks the class up and calls the constructor: a module without
\* the class or a failing constructor ends the call with False.
ThreadConstruct(t) ==
    /\ threads.at[t].pc = "checked"
    /\ \E out \in CtorOutcomes :
           IF heinzinger_control = "module" /\ out = "object" THEN
               /\ next_handle <= MaxHandles
               /\ threads' = [threads EXCEPT !.at[t].pc = "constructed",
                                              !.at[t].made = next_handle]
               /\ next_handle' = next_handle + 1
           ELSE
               /\ threads' = [threads EXCEPT !.at[t] = IdleThread]
               /\ UNCHANGED next_handle
    /\ UNCHANGED <<psu_instances, module_loaded, heinzinger_control,
                   psu_instance_legacy, objects, live, born, last, single, moxa>>

\* Thread t stores its object under its key and returns True. A store over
\* another object is remembered in threads.replaced.
ThreadStore(t) ==
    /\ threads.at[t].pc = "constructed"
    /\ LET k == threads.at[t].key
           h == threads.at[t].made
       IN  /\ psu_instances' = DictSet(psu_instances, k, h)
           /\ threads' =
                  [threads EXCEPT
                      !.at[t] = IdleThread,
                      !.replaced =
                          IF k \in DOMAIN psu_instances
                          THEN @ \cup {[key |-> k, old |-> psu_instances[k],
                                        new |-> h]}
                          ELSE @]
    /\ UNCHANGED <<module_loaded, heinzinger_control, psu_instance_legacy,
                   next_handle, objects, live, born, last, single, moxa>>

\* Thread t calls cleanup_psu(k).
ThreadCleanup(t) ==
    /\ MayBegin(t)
    /\ \E k \in Keys \cup {NoArg} :
           psu_instances' = cleanup_psu(State, k).s.psu_instances
    /\ UNCHANGED <<module_loaded, heinzinger_control, psu_instance_legacy,
                   next_handle, objects, threads, live, born, last, single, moxa>>

InitThreads ==
    /\ Imported
    /\ objects = [tracked |-> FALSE, limits |-> EmptyDict]
    /\ \E serialized \in BOOLEAN : threads = NoCallers(serialized)
    /\ moxa = MoxaNotCalled

NextThreads ==
    \E t \in Threads :
        \/ ThreadSetup(t)
        \/ ThreadCheck(t)
        \/ ThreadConstruct(t)
        \/ ThreadStore(t)
        \/ ThreadCleanup(t)

SpecThreads == InitThreads /\ [][NextThreads]_vars

---------------------------------------------------------------------------
(* run_psu.py, the single-instance wrapper                                  *)

NameError == "NameError: name '_psu_instance' is not defined"

PSUNotInitialized == "RuntimeError: PSU not initialized"

\* Reading the global _psu_instance: its value, or NameError while no
\* assignment has bound the name.
Unbound(s) == ~s.psu_instance.bound

Bind(s, v) == [s EXCEPT !.psu_instance = [bound |-> TRUE, value |-> v]]

\* run_psu.setup_module_path_and_load(): it returns None on every path and
\* has no "already loaded" return.
run_psu_setup_module_path_and_load(s, out) ==
    IF out \in {"no_build_dir", "no_so_file"} THEN
        Returns([s EXCEPT !.module_loaded = FALSE], None)
    ELSE IF out \in {"imported", "imported_without_class"} THEN
        [Returns([s EXCEPT !.module_loaded = TRUE,
                           !.heinzinger_control =
                               IF out = "imported" THEN "module"
                               ELSE "module_without_class"], None)
            EXCEPT !.imports = 1]
    ELSE
        [Returns([s EXCEPT !.module_loaded = FALSE], None)
            EXCEPT !.imports = 1]

\* run_psu.initialize_psu(device_index, max_v, max_c, verb, max_in_v)
run_psu_initialize_psu(s, device_index, lim, out) ==
    IF ~s.module_loaded THEN Returns(s, FALSE)
    ELSE IF Unbound(s) THEN Raises(s, NameError)
    ELSE IF s.psu_instance.value # None THEN Returns(s, TRUE)
    ELSE IF s.heinzinger_control = "unbound" THEN Returns(s, FALSE)
    ELSE IF s.heinzinger_control = "module_without_class" THEN
        Returns(Bind(s, None), FALSE)
    ELSE IF out = "raise" THEN
        [Returns(Bind(s, None), FALSE)
            EXCEPT !.ctor = <<[key |-> device_index, limits |-> lim,
                               made |-> None]>>]
    ELSE
        LET h == s.next_handle IN
        [Returns([Bind(s, h) EXCEPT !.next_handle = h + 1], TRUE)
            EXCEPT !.ctor = <<[key |-> device_index, limits |-> lim,
                               made |-> h]>>]

\* The four commands of run_psu.py: the None check, then the driver call in
\* a try block that turns an Exception into False.
RunPsuCommand(s, method, arg, out) ==
    IF Unbound(s) THEN Raises(s, NameError)
    ELSE IF s.psu_instance.value = None THEN Returns(s, FALSE)
    ELSE IF Float(arg).raised THEN Returns(s, FALSE)
    ELSE Delegate(s, s.psu_instance.value, method, out)

run_psu_set_psu_voltage(s, voltage, out) ==
    RunPsuCommand(s, "set_voltage", voltage, out)

run_psu_set_psu_current(s, current, out) ==
    RunPsuCommand(s, "set_current", current, out)

run_psu_switch_psu_on(s, out) ==
    RunPsuCommand(s, "switch_on", [kind |-> "num", val |-> 0], out)

run_psu_switch_psu_off(s, out) ==
    RunPsuCommand(s, "switch_off", [kind |-> "num", val |-> 0], out)

\* The two reads of run_psu.py: RuntimeError for None, and the driver's
\* exception raised again.
RunPsuRead(s, method, out) ==
    IF Unbound(s) THEN Raises(s, NameError)
    ELSE IF s.psu_instance.value = None THEN Raises(s, PSUNotInitialized)
    ELSE DelegateRead(s, s.psu_instance.value, method, out)

run_psu_read_psu_voltage(s, out) == RunPsuRead(s, "read_voltage", out)

run_psu_read_psu_current(s, out) == RunPsuRead(s, "read_current", out)

\* run_psu.cleanup_psu()
run_psu_cleanup_psu(s) ==
    IF Unbound(s) THEN Raises(s, NameError)
    ELSE Returns(Bind(s, None), TRUE)

\* run_psu.get_psu_instance(device_index, verb): initialize gets the default
\* limits.
run_psu_get_psu_instance(s, device_index, load_out, ctor_out) ==
    IF Unbound(s) THEN Raises(s, NameError)
    ELSE IF s.psu_instance.value = None THEN
        LET a == run_psu_setup_module_path_and_load(s, load_out)
            b == Then(a, run_psu_initialize_psu(a.s, device_index,
                                                DefaultLimits, ctor_out))
        IN  IF b.raised # "" THEN b
            ELSE [b EXCEPT !.ret = b.s.psu_instance.value]
    ELSE Returns(s, s.psu_instance.value)

\* One call of a function of run_psu.py, with key `k` (NoArg where the
\* function takes none) and argument `a`: the kind of a setter's value, the
\* limits of an initialize, the answer the loader got.
SingleCommit(op, k, a, e) ==
    /\ e.s.next_handle <= MaxHandles + 1
    /\ single' = [s |-> e.s,
                  last |-> [op |-> op, key |-> k, arg |-> a, ret |-> e.ret,
                            raised |-> e.raised, ctor |-> e.ctor,
                            drv |-> e.drv, imports |-> e.imports,
                            pre |-> single.s]]
    /\ UNCHANGED <<psu_instances, module_loaded, heinzinger_control,
                   psu_instance_legacy, next_handle, objects, threads,
                   live, born, last, moxa>>

SingleSetup ==
    \E out \in LoadOutcomes :
        SingleCommit("setup_module_path_and_load", NoArg, out,
                     run_psu_setup_module_path_and_load(single.s, out))

SingleInitialize ==
    \E k \in IndexKeys, lim \in Limits, out \in CtorOutcomes :
        SingleCommit("initialize_psu", k, LimitsArg(lim),
                     run_psu_initialize_psu(single.s, k, lim, out))

SingleSetVoltage ==
    \E v \in Args, out \in BoolOutcomes :
        SingleCommit("set_psu_voltage", NoArg, v.kind,
                     run_psu_set_psu_voltage(single.s, v, out))

SingleSetCurrent ==
    \E c \in Args, out \in BoolOutcomes :
        SingleCommit("set_psu_current", NoArg, c.kind,
                     run_psu_set_psu_current(single.s, c, out))

SingleSwitchOn ==
    \E out \in BoolOutcomes :
        SingleCommit("switch_psu_on", NoArg, "",
                     run_psu_switch_psu_on(single.s, out))

SingleSwitchOff ==
    \E out \in BoolOutcomes :
        SingleCommit("switch_psu_off", NoArg, "",
                     run_psu_switch_psu_off(single.s, out))

SingleReadVoltage ==
    \E out \in ReadOutcomes :
        SingleCommit("read_psu_voltage", NoArg, "",
                     run_psu_read_psu_voltage(single.s, out))

SingleReadCurrent ==
    \E out \in ReadOutcomes :
        SingleCommit("read_psu_current", NoArg, "",
                     run_psu_read_psu_current(single.s, out))

SingleCleanup ==
    SingleCommit("cleanup_psu", NoArg, "", run_psu_cleanup_psu(single.s))

SingleGet ==
    \E k \in IndexKeys, lo \in LoadOutcomes, out \in CtorOutcomes :
        SingleCommit("get_psu_instance", k, "",
                     run_psu_get_psu_instance(single.s, k, lo, out))

NextSingle ==
    \/ SingleSetup
    \/ SingleInitialize
    \/ SingleSetVoltage
    \/ SingleSetCurrent
    \/ SingleSwitchOn
    \/ SingleSwitchOff
    \/ SingleReadVoltage
    \/ SingleReadCurrent
    \/ SingleCleanup
    \/ SingleGet

SpecSingle == Init /\ [][NextSingle]_vars

---------------------------------------------------------------------------
(* The registry's contract, claim by claim *)

\* The registry before the last call, and whether the call's key was in it.
Before == last.pre.psu_instances

WasPresent == last.key \in DOMAIN Before

\* C1: initialize for a key that is already in the registry returns True,
\* calls no constructor and leaves the registry as it was; hence every stored
\* object is the one made by the key's first successful construction since
\* its last cleanup.
C1_InitializeIsIdempotent ==
    /\ (last.op \in InitOps /\ WasPresent) =>
           /\ last.raised = "" /\ last.ret = TRUE
           /\ last.ctor = <<>>
           /\ psu_instances = Before
    /\ \A k \in DOMAIN psu_instances : psu_instances[k] = born[k]

\* An initialize call was made for a key that was present.
C1_Witness ==
    /\ last.op \in InitOps /\ WasPresent
    /\ last.ret = TRUE
    /\ psu_instances[last.key] = born[last.key]

\* The last call was an initialize whose construction failed: the module was
\* not loaded, the module or its class was missing, or the constructor raised.
ConstructionFailed ==
    /\ last.op \in InitOps
    /\ \/ ~last.pre.module_loaded
       \/ /\ ~WasPresent
          /\ \/ last.pre.heinzinger_control # "module"
             \/ \E i \in 1..Len(last.ctor) : last.ctor[i].made = None

C3_PresentIffInitializedAndNotCleaned == DOMAIN psu_instances = live

\* A cleanup has removed one key while another stays initialized.
C3_Witness ==
    /\ last.op = "cleanup_psu" /\ last.deleted # <<>>
    /\ live # {} /\ DOMAIN psu_instances = live
    /\ last.key \notin live

\* C4: cleanup(k) returns True whether or not k is present, k is absent
\* afterwards, and a cleanup of an absent key (so a second cleanup of k)
\* changes nothing and returns True.
C4_CleanupOfKey ==
    /\ (last.op = "cleanup_psu" /\ last.key \in Keys) =>
           /\ last.raised = "" /\ last.ret = TRUE
           /\ last.key \notin DOMAIN psu_instances
           /\ ~WasPresent => State = last.pre /\ last.deleted = <<>>
    /\ \A k \in Keys :
           LET first == cleanup_psu(State, k)
               second == cleanup_psu(first.s, k)
           IN  /\ first.raised = "" /\ first.ret = TRUE
               /\ second.raised = "" /\ second.ret = TRUE
               /\ second.s = first.s /\ second.deleted = <<>>

\* cleanup(k) was called for a key that was not in a non-empty registry.
C4_Witness ==
    /\ last.op = "cleanup_psu" /\ last.key \in Keys
    /\ ~WasPresent /\ Before # EmptyDict
    /\ last.ret = TRUE /\ psu_instances = Before

\* How often key k occurs in sequence q.
Occurrences(q, k) == Cardinality({i \in 1..Len(q) : q[i] = k})

\* C5: cleanup() with no argument returns True and leaves the registry empty,
\* having deleted every key present at the call exactly once, index keys and
\* USB-path keys alike, and nothing else.
C5_CleanupOfAll ==
    (last.op = "cleanup_psu" /\ last.key = NoArg) =>
        /\ last.raised = "" /\ last.ret = TRUE
        /\ psu_instances = EmptyDict
        /\ \A k \in Keys :
               Occurrences(last.deleted, k) = IF k \in DOMAIN Before THEN 1 ELSE 0

\* cleanup() ran on a registry that held an index key and a USB-path key.
C5_Witness ==
    /\ last.op = "cleanup_psu" /\ last.key = NoArg
    /\ DOMAIN Before \cap IndexKeys # {}
    /\ DOMAIN Before \cap PathKeys # {}
    /\ Len(last.deleted) >= 2
    /\ psu_instances = EmptyDict

\* The driver method each command and read delegates to.
MethodOf(op) ==
    CASE op = "set_psu_voltage" -> "set_voltage"
      [] op = "set_psu_current" -> "set_current"
      [] op = "switch_psu_on" -> "switch_on"
      [] op = "switch_psu_off" -> "switch_off"
      [] op = "read_psu_voltage" -> "read_voltage"
      [] op = "read_psu_current" -> "read_current"
      [] op = "is_relay_on" -> "is_relay_on"

\* The last call had no live object for its key.
NoLiveHandle == DictGet(Before, last.key) = None

\* The last call made exactly one driver call: its method, on the object
\* stored under its key.
DelegatedOnce ==
    /\ Len(last.drv) = 1
    /\ last.drv[1].obj = Before[last.key]
    /\ last.drv[1].method = MethodOf(last.op)

\* C6: for a key with no live object, each of the four commands returns
\* False without raising, calls no driver method and leaves the state alone.
C6_CommandOnAbsentKey ==
    (last.op \in CommandOps /\ NoLiveHandle) =>
        /\ last.raised = "" /\ last.ret = FALSE
        /\ last.drv = <<>> /\ last.ctor = <<>>
        /\ State = last.pre

\* A command was called for an absent key while another key was present.
C6_Witness ==
    /\ last.op \in CommandOps /\ NoLiveHandle
    /\ Before # EmptyDict
    /\ last.ret = FALSE /\ last.drv = <<>>

\* C7: for a present key, a command never raises and keeps the registry
\* entry; when it calls the driver (at most once, and always for a numeric
\* argument) it returns the boolean the driver returned, or False when the
\* driver raised.
C7_CommandOnPresentKey ==
    (last.op \in CommandOps /\ ~NoLiveHandle) =>
        /\ last.raised = ""
        /\ State = last.pre
        /\ last.arg # "text" => DelegatedOnce
        /\ last.arg = "text" => last.drv = <<>> /\ last.ret = FALSE
        /\ \A i \in 1..Len(last.drv) :
               /\ last.drv[i].out.kind = "ret" => last.ret = last.drv[i].out.val
               /\ last.drv[i].out.kind = "raise" => last.ret = FALSE

\* The driver raised in a command on a present key; the command returned
\* False and the entry is still there with the same object.
C7_Witness ==
    /\ last.op \in CommandOps /\ ~NoLiveHandle
    /\ DelegatedOnce /\ last.drv[1].out.kind = "raise"
    /\ last.ret = FALSE /\ last.raised = ""
    /\ psu_instances[last.key] = Before[last.key]

\* C8: for a key with no live object, the two reads raise the not-initialized
\* RuntimeError, call no driver method and leave the state alone.
C8_ReadOnAbsentKey ==
    (last.op \in ReadOps /\ NoLiveHandle) =>
        /\ last.raised = NotInitialized
        /\ last.drv = <<>> /\ last.ctor = <<>>
        /\ State = last.pre

\* A read was called for an absent key while another key was present.
C8_Witness ==
    /\ last.op \in ReadOps /\ NoLiveHandle
    /\ Before # EmptyDict
    /\ last.raised = NotInitialized

\* C9: for a present key, a read calls the driver once and returns the value
\* it returned, or raises the very exception it raised; the entry is kept.
C9_ReadOnPresentKey ==
    (last.op \in ReadOps /\ ~NoLiveHandle) =>
        /\ DelegatedOnce
        /\ last.drv[1].out.kind = "ret" =>
               last.raised = "" /\ last.ret = last.drv[1].out.val
        /\ last.drv[1].out.kind = "raise" => last.raised = last.drv[1].out.val
        /\ State = last.pre

\* The driver raised in a read of a present key and the caller got that
\* exception.
C9_Witness ==
    /\ last.op \in ReadOps /\ ~NoLiveHandle
    /\ last.drv[1].out.kind = "raise"
    /\ last.raised = last.drv[1].out.val
    /\ psu_instances[last.key] = Before[last.key]

\* C10: is_relay_on never raises; it returns False for a key with no live
\* object and when the driver's query raises, and True only when the key's
\* object was asked and answered True.
C10_RelayStateFailsSafe ==
    (last.op = "is_relay_on") =>
        /\ last.raised = ""
        /\ last.ret \in BOOLEAN
        /\ NoLiveHandle => last.ret = FALSE /\ last.drv = <<>>
        /\ ~NoLiveHandle => DelegatedOnce
        /\ \A i \in 1..Len(last.drv) :
               last.drv[i].out.kind = "raise" => last.ret = FALSE
        /\ last.ret = TRUE =>
               /\ ~NoLiveHandle /\ DelegatedOnce
               /\ last.drv[1].out = [kind |-> "ret", val |-> TRUE]

\* The driver raised in is_relay_on for a present key and False came back.
C10_Witness ==
    /\ last.op = "is_relay_on" /\ ~NoLiveHandle
    /\ last.drv # <<>> /\ last.drv[1].out.kind = "raise"
    /\ last.ret = FALSE /\ last.raised = ""

---------------------------------------------------------------------------
AccessorOps == {"get_psu_instance", "get_psu_instance_by_path"}

\* C11 as stated: the accessor called for an absent key returns None, calls
\* no driver constructor and adds no key to the registry.
C11_AccessorNeverInitializes ==
    (last.op \in AccessorOps /\ ~WasPresent) =>
        /\ last.ret = None
        /\ last.ctor = <<>>
        /\ psu_instances = Before

\* C11 as amended: the lookup _psu_instances.get(k) inside the commands, the
\* reads and the relay query finds an absent key absent, calls no constructor
\* and adds no key; the accessor called for an absent key initializes it. It
\* calls the driver constructor at most once, and only for that key; when it
\* returns an object, that object is the one just made and the registry has
\* gained exactly that entry; when it returns None the registry is as it was.
C11_AccessorInitializesAbsentKey ==
    /\ (last.op \in CommandOps \cup ReadOps \cup {"is_relay_on"} /\ ~WasPresent) =>
           /\ last.ctor = <<>> /\ last.drv = <<>>
           /\ psu_instances = Before
    /\ (last.op \in AccessorOps /\ ~WasPresent) =>
           /\ Len(last.ctor) <= 1
           /\ \A i \in 1..Len(last.ctor) : last.ctor[i].key = last.key
           /\ last.ret # None =>
                  /\ Len(last.ctor) = 1 /\ last.ctor[1].made = last.ret
                  /\ psu_instances = DictSet(Before, last.key, last.ret)
           /\ last.ret = None =>
                  /\ psu_instances = Before
                  /\ \A i \in 1..Len(last.ctor) : last.ctor[i].made = None

\* The accessor was called for an absent key while another key was present,
\* made an object and returned it.
C11_Witness ==
    /\ last.op \in AccessorOps /\ ~WasPresent
    /\ Before # EmptyDict
    /\ last.ret # None /\ Len(last.ctor) = 1
    /\ last.key \in DOMAIN psu_instances

---------------------------------------------------------------------------
\* The limits the last call was given.
SuppliedLimits == CHOOSE lim \in Limits : LimitsArg(lim) = last.arg

\* C12: get_psu_instance for a present key returns the stored object and
\* changes nothing, calling no constructor; for an absent key every
\* constructor call it makes is for that key with the limits it was given
\* (the defaults when none were given), and it returns the object just
\* stored, or None with the registry as it was.
C12_EnsureByIndex ==
    last.op = "get_psu_instance" =>
        /\ last.raised = ""
        /\ WasPresent =>
               /\ last.ret = Before[last.key]
               /\ last.ctor = <<>> /\ last.imports = 0
               /\ State = last.pre
        /\ ~WasPresent =>
               /\ \A i \in 1..Len(last.ctor) :
                      /\ last.ctor[i].key = last.key
                      /\ last.ctor[i].limits = SuppliedLimits
               /\ last.ret # None =>
                      /\ Len(last.ctor) = 1 /\ last.ctor[1].made = last.ret
                      /\ psu_instances = DictSet(Before, last.key, last.ret)
               /\ last.ret = None => psu_instances = Before

\* get_psu_instance was given limits of its own for an absent key and
\* returned the object made with them.
C12_Witness ==
    /\ last.op = "get_psu_instance" /\ ~WasPresent
    /\ last.arg = LimitsArg(CallerLimits)
    /\ Len(last.ctor) = 1 /\ last.ctor[1].limits = CallerLimits
    /\ last.ret # None /\ psu_instances[last.key] = last.ret

---------------------------------------------------------------------------
\* C13: the keys present at the same time hold pairwise distinct objects,
\* and a call made for one key (initialize, accessor, command, read, relay
\* query or cleanup of that key) leaves every other key as it was: present
\* with the same object, or absent.
C13_KeysAreIndependent ==
    /\ \A j, k \in DOMAIN psu_instances :
           j # k => psu_instances[j] # psu_instances[k]
    /\ last.key # NoArg =>
           \A j \in Keys \ {last.key} :
               /\ (j \in DOMAIN psu_instances) = (j \in DOMAIN Before)
               /\ DictGet(psu_instances, j) = DictGet(Before, j)

\* Both USB paths were present with different objects, and the cleanup of
\* one of them left the other in place.
C13_Witness ==
    /\ last.op = "cleanup_psu" /\ last.key = USB_PATH_HEINZINGER
    /\ {USB_PATH_HEINZINGER, USB_PATH_FUG} \subseteq DOMAIN Before
    /\ Before[USB_PATH_HEINZINGER] # Before[USB_PATH_FUG]
    /\ USB_PATH_HEINZINGER \notin DOMAIN psu_instances
    /\ DictGet(psu_instances, USB_PATH_FUG) = Before[USB_PATH_FUG]

---------------------------------------------------------------------------
\* C14: while the module is not loaded the registry is empty and every
\* initialize call, for an index or for a USB path, returns False without
\* calling the constructor; once the loader has imported the module with its
\* class, an initialize of an absent key whose constructor answers with an
\* object returns True and stores it.
C14_NothingWithoutModule ==
    /\ ~module_loaded => psu_instances = EmptyDict
    /\ (last.op \in InitOps /\ ~last.pre.module_loaded) =>
           /\ last.ret = FALSE /\ last.raised = ""
           /\ last.ctor = <<>>
           /\ State = last.pre
    /\ (module_loaded /\ heinzinger_control = "module") =>
           /\ \A k \in IndexKeys \ DOMAIN psu_instances, lim \in Limits :
                  LET e == initialize_psu(State, k, lim, "object")
                  IN  e.ret = TRUE /\ k \in DOMAIN e.s.psu_instances
           /\ \A k \in PathKeys \ DOMAIN psu_instances, lim \in Limits :
                  LET e == initialize_psu_by_path(State, k, lim, "object")
                  IN  e.ret = TRUE /\ k \in DOMAIN e.s.psu_instances

\* An initialize was called while the module was not loaded and bound to no
\* name, and was refused: no constructor call, nothing stored.
C14_Witness ==
    /\ last.op \in InitOps /\ ~last.pre.module_loaded
    /\ last.pre.heinzinger_control = "unbound"
    /\ last.ret = FALSE /\ last.ctor = <<>>
    /\ psu_instances = EmptyDict /\ ~module_loaded

---------------------------------------------------------------------------
\* C15: no call retries. A call invokes the driver constructor at most once
\* and a driver method at most once, and a failure of either is what the
\* call reports: initialize returns False, the accessor None, a command
\* False, and a read raises the driver's error.
C15_NoRetries ==
    /\ Len(last.ctor) <= 1
    /\ Len(last.drv) <= 1
    /\ (Len(last.ctor) = 1 /\ last.ctor[1].made = None) =>
           /\ last.op \in InitOps => last.ret = FALSE
           /\ last.op \in AccessorOps => last.ret = None
           /\ psu_instances = Before
    /\ (Len(last.drv) = 1 /\ last.drv[1].out.kind = "raise") =>
           /\ last.op \in CommandOps => last.ret = FALSE /\ last.raised = ""
           /\ last.op \in ReadOps => last.raised = last.drv[1].out.val

\* The constructor failed in an initialize: it was called that one time, the
\* call returned False and stored nothing.
C15_Witness ==
    /\ last.op \in InitOps /\ ~WasPresent
    /\ Len(last.ctor) = 1 /\ last.ctor[1].made = None
    /\ last.drv = <<>>
    /\ last.ret = FALSE /\ last.key \notin DOMAIN psu_instances

---------------------------------------------------------------------------
\* C16: the registry is the only owner of an object: after a cleanup, no
\* module global refers to an object that the cleanup removed from the
\* registry, and at no time does the legacy global refer to an object that
\* the registry does not hold.
C16_RegistryIsOnlyOwner ==
    /\ last.op = "cleanup_psu" =>
           \A i \in 1..Len(last.deleted) :
               Before[last.deleted[i]] \notin Referenced(State)
    /\ Referenced(State) \subseteq
           {psu_instances[k] : k \in DOMAIN psu_instances}

---------------------------------------------------------------------------
\* C23: the loaded flag is monotone and the loader idempotent. No call turns
\* _module_loaded from True to False or imports the module again once it is
\* loaded; a loader call that returns True leaves the flag True, and a loader
\* call made with the flag True returns True and changes nothing; hence a
\* registry that is not empty implies a loaded module.
C23_LoadedFlagIsMonotone ==
    /\ last.pre.module_loaded => (module_loaded /\ last.imports = 0)
    /\ last.op = "setup_module_path_and_load" =>
           /\ last.ret = TRUE => module_loaded
           /\ last.pre.module_loaded =>
                  /\ last.ret = TRUE /\ last.raised = ""
                  /\ State = last.pre
    /\ psu_instances # EmptyDict => module_loaded

\* The loader was called again with the module loaded and an object in the
\* registry: it returned True without importing.
C23_Witness ==
    /\ last.op = "setup_module_path_and_load"
    /\ last.pre.module_loaded /\ Before # EmptyDict
    /\ last.ret = TRUE /\ last.imports = 0
    /\ module_loaded /\ psu_instances = Before

---------------------------------------------------------------------------
\* C24: a key that has been cleaned up stays out of control until it is
\* initialized again. For a key with no successful initialize since its last
\* cleanup, commands return False and reads raise without a driver call; a
\* cleanup of a key leaves it absent; and a key enters the registry only in
\* an initialize or accessor call whose one constructor call made the object
\* stored, an object that did not exist before the call.
C24_ControlNeedsNewInitialization ==
    /\ (last.op \in CommandOps /\ last.key \notin live) =>
           last.ret = FALSE /\ last.raised = "" /\ last.drv = <<>>
    /\ (last.op \in ReadOps /\ last.key \notin live) =>
           last.raised = NotInitialized /\ last.drv = <<>>
    /\ (last.op = "cleanup_psu" /\ last.key # NoArg) =>
           last.key \notin DOMAIN psu_instances /\ last.key \notin live
    /\ \A k \in DOMAIN psu_instances \ DOMAIN Before :
           /\ last.op \in InitOps \cup EnsureOps /\ last.key = k
           /\ Len(last.ctor) = 1 /\ last.ctor[1].made = psu_instances[k]
           /\ psu_instances[k] >= last.pre.next_handle

\* The legacy global still holds the first object, made for an index key
\* that was cleaned up since; both index keys have been initialized anew and
\* hold later objects, the second of them made by the last call.
C24_Witness ==
    /\ last.op \in InitOps \cup EnsureOps /\ ~WasPresent
    /\ psu_instance_legacy = 1
    /\ DOMAIN psu_instances = IndexKeys
    /\ \A k \in IndexKeys : psu_instances[k] > 1
    /\ Len(last.ctor) = 1 /\ last.ctor[1].made = psu_instances[last.key]

---------------------------------------------------------------------------
\* C26: get_psu_instance_by_path called first in a process whose module is
\* loadable does what get_psu_instance does there: it loads the module,
\* calls the constructor for its key, and returns the object made.
C26_PathAccessorLoadsModule ==
    (/\ last.op = "get_psu_instance_by_path"
     /\ ~last.pre.module_loaded /\ Before = EmptyDict
     /\ last.loader = "imported") =>
        /\ module_loaded
        /\ Len(last.ctor) = 1
        /\ last.ctor[1].made # None =>
               /\ last.ret = last.ctor[1].made
               /\ DictGet(psu_instances, last.key) = last.ret

---------------------------------------------------------------------------
\* The limits of the object stored under key k in state s.
LimitsOf(s, k) == s.objects[s.psu_instances[k]]

\* C25: the limits of a live object are those of the constructor call that
\* made it. Every stored object has limits; an object made in a call has the
\* limits passed to its constructor; a key present before and after a call
\* holds the same object with the same limits; and initialize or
\* get_psu_instance for a present key, whatever limits it is given, reports
\* success without a constructor call.
C25_LimitsFixedAtConstruction ==
    /\ \A k \in DOMAIN psu_instances :
           psu_instances[k] \in DOMAIN objects.limits
    /\ \A i \in 1..Len(last.ctor) :
           last.ctor[i].made \in DOMAIN objects.limits =>
               objects.limits[last.ctor[i].made] = last.ctor[i].limits
    /\ \A k \in DOMAIN psu_instances \cap DOMAIN Before :
           /\ psu_instances[k] = Before[k]
           /\ LimitsOf(State, k) = LimitsOf(last.pre, k)
    /\ (last.op \in InitOps \cup {"get_psu_instance"} /\ WasPresent) =>
           /\ last.ctor = <<>> /\ last.raised = ""
           /\ last.op \in InitOps => last.ret = TRUE
           /\ last.op = "get_psu_instance" => last.ret = Before[last.key]
           /\ State = last.pre

\* A present key was initialized, or fetched, again with limits other than
\* those of its object: the call reported success and the object kept its
\* limits.
C25_Witness ==
    /\ last.op \in InitOps \cup {"get_psu_instance"} /\ WasPresent
    /\ SuppliedLimits # LimitsOf(last.pre, last.key)
    /\ last.ctor = <<>>
    /\ psu_instances[last.key] = Before[last.key]
    /\ LimitsOf(State, last.key) = LimitsOf(last.pre, last.key)

---------------------------------------------------------------------------
\* C21: with the callers serialized no store of initialize ever replaces an
\* object, at most one thread is inside a call, and no thread is past its
\* presence check for a key that is present; the replacement happens only
\* without serialization.
C21_SerializedCallersNeverReplace ==
    threads.serialized =>
        /\ threads.replaced = {}
        /\ Cardinality({t \in Threads : threads.at[t].pc # "idle"}) <= 1
        /\ \A t \in Threads :
               threads.at[t].pc # "idle" =>
                   threads.at[t].key \notin DOMAIN psu_instances

\* Without serialization two threads passed the presence check for the same
\* absent key, the constructor was called for each, and the second store
\* replaced the object of the first.
C21_Witness ==
    /\ ~threads.serialized
    /\ \E r \in threads.replaced :
           /\ r.old # r.new
           /\ psu_instances[r.key] = r.new
    /\ \A t \in Threads : threads.at[t].pc = "idle"

---------------------------------------------------------------------------
\* C22: in run_psu.py, every call made before any successful initialization
\* follows the not-initialized contract: the four commands return False, the
\* two reads raise RuntimeError("PSU not initialized"), cleanup_psu returns
\* True, initialize_psu with the module and its class loaded calls the
\* constructor, and no call fails in any other way.
C22_NotInitializedContract ==
    single.s.psu_instance.value = None =>
        /\ single.last.raised \in {"", PSUNotInitialized}
        /\ single.last.op \in {"set_psu_voltage", "set_psu_current",
                                "switch_psu_on", "switch_psu_off"} =>
               single.last.ret = FALSE /\ single.last.raised = ""
        /\ single.last.op \in {"read_psu_voltage", "read_psu_current"} =>
               single.last.raised = PSUNotInitialized
        /\ single.last.op = "cleanup_psu" =>
               single.last.ret = TRUE /\ single.last.raised = ""
        /\ (/\ single.last.op = "initialize_psu"
            /\ single.last.pre.module_loaded
            /\ single.last.pre.heinzinger_control = "module") =>
               Len(single.last.ctor) = 1

\* ---------------------------------------------------------------------------
\* moxa.py: connect and scan.

\* The longest list of ports scan is called with.
MaxPorts == 3

\* Entries of the ports list, as json.load can deliver them from the
\* configuration: a number (4001), a string int() accepts ("4002"), and a
\* string int() rejects ("COM1").
PortEntries ==
    { [kind |-> "number", val |-> 4001],
      [kind |-> "digits", val |-> 4002],
      [kind |-> "text",   val |-> 0] }

PortLists == UNION { [1..n -> PortEntries] : n \in 0..MaxPorts }

\* int(p): the number, or ValueError for a string that is not a number.
int(p) ==
    IF p.kind = "text" THEN [raised |-> "ValueError", val |-> 0]
    ELSE [raised |-> "", val |-> p.val]

\* What the operating system answers to one connect():
\* socket.socket() fails, s.connect() fails, or the connection stands.
ConnectOutcomes == {"no socket", "refused", "timed out", "connected"}

\* connect(host, port): creates the socket, then converts the port and
\* connects.  A failure after socket.socket() leaves the function by the
\* exception, with no close() of the socket it created.
connect(port, out) ==
    IF out = "no socket" THEN [raised |-> "no socket", socket |-> "none"]
    ELSE IF int(port).raised # "" THEN
        [raised |-> int(port).raised, socket |-> "unclosed"]
    ELSE IF out # "connected" THEN [raised |-> out, socket |-> "unclosed"]
    ELSE [raised |-> "", socket |-> "open"]

\* When the interpreter finalizes an object nothing refers to any more:
\* at once (reference counting) or at some later collection.
Collectors == {"at once", "later"}

\* One iteration of scan's for loop: the try block and its handler.
\* s.close() closes the socket connect() returned.  The socket of a connect()
\* that raised is referred to by the exception alone: when the handler ends
\* and the exception is dropped it is closed by its finalizer, if the
\* interpreter runs it by then; when the handler itself raises, the
\* exception that leaves scan still refers to it.
scan_iteration(m, out, gc) ==
    LET p == m.ports[m.i]
        c == connect(p, out)
        left == IF int(p).raised = "" /\ gc = "at once" THEN "finalized"
                ELSE "unclosed"
        opened == IF c.socket = "none" THEN m.sockets
                  ELSE Append(m.sockets,
                              [entry |-> m.i,
                               state |-> IF c.socket = "open" THEN "closed"
                                         ELSE left])
        seen == [m EXCEPT !.attempts = Append(@, c.raised),
                          !.sockets = opened]
    IN  IF c.raised = "" THEN
            [seen EXCEPT !.i = @ + 1,
                         !.results = Append(@, [port |-> int(p).val,
                                                ok |-> TRUE,
                                                msg |-> "connect_ok"])]
        ELSE IF int(p).raised # "" THEN
            [seen EXCEPT !.status = "raised", !.raised = int(p).raised]
        ELSE
            [seen EXCEPT !.i = @ + 1,
                         !.results = Append(@, [port |-> int(p).val,
                                                ok |-> FALSE,
                                                msg |-> c.raised])]

\* scan(host, ports) is called.
InitMoxa ==
    /\ Imported
    /\ objects = [tracked |-> FALSE, limits |-> EmptyDict]
    /\ threads = NoCallers(TRUE)
    /\ \E ports \in PortLists :
           moxa = [MoxaNotCalled EXCEPT !.status = "running",
                                        !.ports = ports, !.i = 1]

ScanIteration ==
    /\ moxa.status = "running"
    /\ moxa.i <= Len(moxa.ports)
    /\ \E out \in ConnectOutcomes, gc \in Collectors :
           moxa' = scan_iteration(moxa, out, gc)
    /\ UNCHANGED <<psu_instances, module_loaded, heinzinger_control,
                   psu_instance_legacy, next_handle, objects, threads,
                   live, born, last, single>>

ScanReturn ==
    /\ moxa.status = "running"
    /\ moxa.i > Len(moxa.ports)
    /\ moxa' = [moxa EXCEPT !.status = "returned"]
    /\ UNCHANGED <<psu_instances, module_loaded, heinzinger_control,
                   psu_instance_legacy, next_handle, objects, threads,
                   live, born, last, single>>

NextMoxa == ScanIteration \/ ScanReturn

SpecMoxa == InitMoxa /\ [][NextMoxa]_vars

\* C27: scan returns one result per entry of ports, in the order of ports,
\* with ok True and msg "connect_ok" exactly for the entries whose connect
\* succeeded; a failed connect never raises out of scan nor keeps the later
\* ports from being attempted; and every socket opened is closed when scan
\* returns.
C27_ScanReportsEveryPort ==
    /\ moxa.status # "raised"
    /\ moxa.status = "returned" =>
        /\ Len(moxa.results) = Len(moxa.ports)
        /\ Len(moxa.attempts) = Len(moxa.ports)
        /\ \A n \in 1..Len(moxa.results) :
            /\ moxa.results[n].port = int(moxa.ports[n]).val
            /\ moxa.results[n].ok = (moxa.attempts[n] = "")
            /\ (moxa.results[n].msg = "connect_ok") = (moxa.attempts[n] = "")
        /\ \A n \in 1..Len(moxa.sockets) :
               moxa.sockets[n].state \in {"closed", "finalized"}

=============================================================================
